---- MODULE Spec2Model ----
(***************************************************************************)
(* Model of open-pr-agent: the review run of src/main.py (agent call,      *)
(* artifact, comment lifecycle on the pull request) and the payload        *)
(* builder of src/scripts/post_review.py.                                  *)
(*                                                                         *)
(* Text is modelled as a sequence of tokens; " " is a whitespace token and *)
(* "\n" a line break, so that strip(), join() and the substring test       *)
(* `COMMENT_TAG in body` are computed, not assumed.                        *)
(***************************************************************************)
EXTENDS Integers, Sequences, FiniteSets, TLC

\* ------------------------------------------------------------------ bounds
MaxPrior == 2        \* prior comments on the PR, enumerated exhaustively
MaxComments == 2     \* review comments in one agent output

\* ------------------------------------------------------- program constants
PerPage == 100       \* params={"per_page": 100}

COMMENT_TAG == <<"<!--", "open-pr-agent-review", "-->">>

DOWNGRADE_NOTICE == <<"_Auto-review would approve, but this token cannot submit approvals._">>

\* ------------------------------------------------------------ text helpers
IsSpace(t) == t \in {" ", "\n"}

RECURSIVE LStrip(_)
LStrip(s) == IF s # <<>> /\ IsSpace(Head(s)) THEN LStrip(Tail(s)) ELSE s

RECURSIVE RStrip(_)
RStrip(s) ==
    IF s # <<>> /\ IsSpace(s[Len(s)]) THEN RStrip(SubSeq(s, 1, Len(s) - 1)) ELSE s

\* str.strip()
Strip(s) == RStrip(LStrip(s))

\* sub in s
Contains(s, sub) ==
    \E i \in 1..(Len(s) - Len(sub) + 1) : SubSeq(s, i, i + Len(sub) - 1) = sub

\* "\n".join(lines)
RECURSIVE JoinLines(_)
JoinLines(lines) ==
    IF lines = <<>> THEN <<>>
    ELSE IF Len(lines) = 1 THEN lines[1]
    ELSE lines[1] \o <<"\n">> \o JoinLines(Tail(lines))

\* dict.get(key, default)
Get(d, key, default) == IF key \in DOMAIN d THEN d[key] ELSE default

\* ===================================================== scripts/post_review.py
\* os.getenv("OPEN_PR_AGENT_ALLOW_APPROVALS", "").lower()
Lower(v) ==
    CASE v = "TRUE" -> "true"
      [] v = "Yes" -> "yes"
      [] OTHER -> v

allow_approvals(env) == Lower(env) \in {"1", "true", "yes"}

\* mutant: `if line is not None` instead of isinstance(line, int)
IsIntLine_NotNone(line) == line.kind # "none"

\* isinstance(line, int)
IsIntLine(line) == line.kind = "int"

\* negation of `if not path or not body: continue`
KeepsComment(comment) ==
    /\ comment.path # <<>>
    /\ Strip(comment.comment) # <<>>

InlineEntry(comment) ==
    [path |-> comment.path, line |-> comment.line.val, side |-> "RIGHT",
     body |-> Strip(comment.comment)]

\* f"- {path}: {body}"
GeneralNote(comment) ==
    <<"- ">> \o comment.path \o <<": ">> \o Strip(comment.comment)

RECURSIVE inline_comments(_)
inline_comments(comments) ==
    IF comments = <<>> THEN <<>>
    ELSE LET comment == Head(comments)
             rest == inline_comments(Tail(comments))
         IN IF KeepsComment(comment) /\ IsIntLine(comment.line)
            THEN <<InlineEntry(comment)>> \o rest
            ELSE rest

RECURSIVE general_notes(_)
general_notes(comments) ==
    IF comments = <<>> THEN <<>>
    ELSE LET comment == Head(comments)
             rest == general_notes(Tail(comments))
         IN IF KeepsComment(comment) /\ ~IsIntLine(comment.line)
            THEN <<GeneralNote(comment)>> \o rest
            ELSE rest

body_lines(summary, notes) ==
    << IF Strip(summary) # <<>> THEN Strip(summary)
       ELSE <<"Automated review result.">> >>
    \o (IF notes # <<>> THEN << <<>>, <<"Additional notes:">> >> \o notes
        ELSE <<>>)

\* mutant: the gate ignores OPEN_PR_AGENT_ALLOW_APPROVALS
DowngradesApproval_IgnoresFlag(event, env) == event = "APPROVE"

\* the approval gate at the end of build_review_payload
DowngradesApproval(event, env) == event = "APPROVE" /\ ~allow_approvals(env)

build_review_payload(output, env) ==
    LET decision == Get(output, "decision", "COMMENT")
        summary == Get(output, "summary", <<>>)
        comments == Get(output, "comments", <<>>)
        inline == inline_comments(comments)
        base == [event |-> decision,
                 body |-> Strip(JoinLines(body_lines(summary, general_notes(comments))))]
        withInline == IF inline # <<>> THEN base @@ ("comments" :> inline) ELSE base
    IN IF DowngradesApproval(withInline.event, env)
       THEN [withInline EXCEPT
               !.event = "COMMENT",
               !.body = Strip(@ \o <<"\n", "\n">> \o DOWNGRADE_NOTICE)]
       ELSE withInline

\* ------------------------------------------------- inputs of the payload run
Decisions == {"APPROVE", "REQUEST_CHANGES", "COMMENT"}
EnvValues == {"", "TRUE", "0"}
Summaries == {<<" ">>, <<"s", " ">>}
Paths == {<<>>, <<" ">>, <<"a">>}
Lines == {[kind |-> "none", val |-> 0], [kind |-> "int", val |-> 7],
          [kind |-> "str", val |-> 7]}
Texts == {<<" ">>, <<" ", "x">>}
ReviewComments == [path : Paths, line : Lines, comment : Texts]

SeqsUpTo(S, n) == UNION {[1..k -> S] : k \in 0..n}

AgentOutputs ==
    {[summary |-> s, comments |-> cs] :
        s \in Summaries, cs \in SeqsUpTo(ReviewComments, MaxComments)}
    \cup
    {[decision |-> d, summary |-> s, comments |-> cs] :
        d \in Decisions, s \in Summaries,
        cs \in SeqsUpTo(ReviewComments, MaxComments)}

AgentFiles == {"missing", "empty", "invalid", "json"}

\* ================================================================== main.py
VARIABLES
    mode,                 \* "main": a run of main(); "call": post_github_comment
                          \* called on its own; "payload": a post_review.py run
    pc,                   \* position of the run
    event_path,           \* --event-path: "none", "file", "missing", "nopull"
    github_token,         \* --github-token: "" or "tok"
    delete_old_comments,  \* --delete-old-comments
    review,               \* the review text
    artifact,             \* the file at --output-path
    remote,               \* the comments on the PR, oldest first
    remote0,              \* the comments on the PR when the run started
    listing,              \* comments_resp.json()
    idx,                  \* position of the `for comment in ...` loop
    ops,                  \* the remote requests made so far, in order
    exit_code,            \* process exit status (-1 while running)
    agent_calls,          \* number of conversation.run() calls
    agent_result,         \* what the agent call produced ("none" before it)
    agent_file,           \* post_review.py: state of <agent_output.json>
    agent_output,         \* post_review.py: the parsed agent output
    env_allow,            \* post_review.py: OPEN_PR_AGENT_ALLOW_APPROVALS
    payload,              \* post_review.py: <payload.json>
    payload_written       \* post_review.py: whether <payload.json> was written

vars == <<mode, pc, event_path, github_token, delete_old_comments, review,
          artifact, remote, remote0, listing, idx, ops, exit_code, agent_calls,
          agent_result, agent_file, agent_output, env_allow, payload, payload_written>>

mainVars == <<event_path, github_token, delete_old_comments, review, artifact,
              remote, remote0, listing, idx, ops, agent_calls, agent_result>>
payloadVars == <<agent_file, agent_output, env_allow, payload, payload_written>>

Min(a, b) == IF a < b THEN a ELSE b

\* mutant: every listed comment is taken for one of ours
IsOurs_Any(comment) == TRUE

\* COMMENT_TAG in (comment.get("body") or "")
IsOurs(comment) == Contains(comment.body, COMMENT_TAG)

\* {"body": f"{review}\n\n{COMMENT_TAG}"}
PostBody(text) == text \o <<"\n", "\n">> \o COMMENT_TAG

\* GET .../issues/{n}/comments?per_page=100 : the first page only
FirstPage(comments) == SubSeq(comments, 1, Min(Len(comments), PerPage))

\* DELETE .../issues/comments/{id}
WithoutId(comments, id) == SelectSeq(comments, LAMBDA c : c.id # id)

Op(name, id, ok, body) == [op |-> name, id |-> id, ok |-> ok, body |-> body]

\* ---------------------------------------------------------- inputs of a run
OursBody == <<"r", "\n", "\n">> \o COMMENT_TAG
PriorBodies == {<<"h">>, OursBody, <<"<!--", "-->">>, <<">">> \o COMMENT_TAG \o <<"h">>}

Numbered(bodies) == [i \in 1..Len(bodies) |-> [id |-> i, body |-> bodies[i]]]

PriorComments ==
    {Numbered(b) : b \in SeqsUpTo(PriorBodies, MaxPrior)}
    \cup {Numbered([i \in 1..n |-> OursBody]) : n \in {PerPage, PerPage + 1}}

AgentResults == {"raise", "empty", "blank", "text"}
AgentContent(result) ==
    CASE result = "empty" -> <<>>
      [] result = "blank" -> <<" ">>
      [] OTHER -> <<"r", " ">>

NoPayload == [event |-> "", body |-> <<>>]

PayloadIdle ==
    /\ agent_file = "missing"
    /\ agent_output = [summary |-> <<>>, comments |-> <<>>]
    /\ env_allow = ""
    /\ payload = NoPayload
    /\ payload_written = FALSE

Init ==
    /\ mode \in {"main", "call"}
    /\ event_path \in IF mode = "main" THEN {"none", "file", "missing", "nopull"}
                      ELSE {"file"}
    /\ github_token \in {"", "tok"}
    /\ delete_old_comments \in BOOLEAN
    /\ review \in IF mode = "main" THEN {<<>>} ELSE {<<>>, <<"r">>}
    /\ pc = IF mode = "main" THEN "settings" ELSE "post_enter"
    /\ artifact = [written |-> FALSE, text |-> <<>>]
    /\ remote \in PriorComments
    /\ remote0 = remote
    /\ listing = <<>>
    /\ idx = 1
    /\ ops = <<>>
    /\ exit_code = -1
    /\ agent_calls = 0
    /\ agent_result = "none"
    /\ PayloadIdle

\* ------------------------------------------------------------------- main()
Fatal ==
    /\ pc' = "fatal"
    /\ exit_code' = 1

\* the run reaches the end of main(), or post_github_comment returns to it
Return ==
    /\ pc' = "done"
    /\ exit_code' = 0

\* mutant: empty agent content is accepted
NoContent_Never(content) == FALSE

\* if not review_content: raise RuntimeError(...)
NoContent(content) == content = <<>>

\* settings = Settings()
LoadSettings ==
    /\ pc = "settings"
    /\ \/ /\ pc' = "event"
          /\ UNCHANGED exit_code
       \/ Fatal
    /\ UNCHANGED <<mode, mainVars, payloadVars>>

\* if args.event_path: ... if not event_path.is_file(): raise SystemExit(...)
CheckEventPath ==
    /\ pc = "event"
    /\ IF event_path = "missing" THEN Fatal
       ELSE pc' = "agent" /\ UNCHANGED exit_code
    /\ UNCHANGED <<mode, mainVars, payloadVars>>

\* review = run_openhands_backend(settings, event_path)
RunAgent ==
    /\ pc = "agent"
    /\ IF event_path = "nopull"
       THEN /\ Fatal
            /\ UNCHANGED <<review, agent_calls, agent_result>>
       ELSE \E result \in AgentResults :
              /\ agent_calls' = agent_calls + 1
              /\ agent_result' = result
              /\ IF result = "raise" \/ NoContent(AgentContent(result))
                 THEN Fatal /\ UNCHANGED review
                 ELSE /\ review' = Strip(AgentContent(result))
                      /\ pc' = "write"
                      /\ UNCHANGED exit_code
    /\ UNCHANGED <<mode, event_path, github_token, delete_old_comments, artifact,
                   remote, remote0, listing, idx, ops, payloadVars>>

\* Path(args.output_path).write_text(f"{review.strip()}\n")
WriteOutput ==
    /\ pc = "write"
    /\ \/ /\ artifact' = [written |-> TRUE, text |-> Strip(review) \o <<"\n">>]
          /\ pc' = "dispatch"
          /\ UNCHANGED exit_code
       \/ Fatal /\ UNCHANGED artifact
    /\ UNCHANGED <<mode, event_path, github_token, delete_old_comments, review,
                   remote, remote0, listing, idx, ops, agent_calls, agent_result,
                   payloadVars>>

\* if event_path: if not args.github_token: warn else post_github_comment(...)
Dispatch ==
    /\ pc = "dispatch"
    /\ IF event_path # "none" /\ github_token # ""
       THEN pc' = "post_enter" /\ UNCHANGED exit_code
       ELSE Return
    /\ UNCHANGED <<mode, mainVars, payloadVars>>

\* ---------------------------------------------------- post_github_comment()
\* mutant: the credential check is missing
NoToken_Never(token) == FALSE

\* if not token:
NoToken(token) == token = ""

\* mutant: the handler of a failed cleanup returns from the function
OnCleanupError_Returns == Return

\* except RequestException: logger.warning(...) ; control goes on to the post
OnCleanupError ==
    /\ pc' = "post"
    /\ UNCHANGED exit_code

\* mutant: a failed post propagates
OnPostError_Raises == Fatal

\* except RequestException: logger.error(...) ; the function returns
OnPostError == Return

\* if not token: return ; if delete_old_comments: ...
EnterPost ==
    /\ pc = "post_enter"
    /\ IF NoToken(github_token) THEN Return
       ELSE /\ pc' = IF delete_old_comments THEN "list" ELSE "post"
            /\ UNCHANGED exit_code
    /\ UNCHANGED <<mode, mainVars, payloadVars>>

LoopPc(i, comments) == IF i > Len(comments) THEN "post" ELSE "delete"

\* comments_resp = requests.get(...); comments_resp.raise_for_status()
ListComments ==
    /\ pc = "list"
    /\ \/ /\ listing' = FirstPage(remote)
          /\ idx' = 1
          /\ ops' = Append(ops, Op("list", 0, TRUE, <<>>))
          /\ pc' = LoopPc(1, listing')
          /\ UNCHANGED exit_code
       \/ /\ ops' = Append(ops, Op("list", 0, FALSE, <<>>))
          /\ OnCleanupError
          /\ UNCHANGED <<listing, idx>>
    /\ UNCHANGED <<mode, event_path, github_token, delete_old_comments, review,
                   artifact, remote, remote0, agent_calls, agent_result,
                   payloadVars>>

\* loop body when the comment does not carry the tag
SkipComment ==
    /\ pc = "delete"
    /\ ~IsOurs(listing[idx])
    /\ idx' = idx + 1
    /\ pc' = LoopPc(idx + 1, listing)
    /\ UNCHANGED <<mode, event_path, github_token, delete_old_comments, review,
                   artifact, remote, remote0, listing, ops, exit_code,
                   agent_calls, agent_result, payloadVars>>

\* requests.delete(delete_url); delete_resp.raise_for_status() succeeds
DeleteComment ==
    /\ pc = "delete"
    /\ IsOurs(listing[idx])
    /\ remote' = WithoutId(remote, listing[idx].id)
    /\ ops' = Append(ops, Op("delete", listing[idx].id, TRUE, <<>>))
    /\ idx' = idx + 1
    /\ pc' = LoopPc(idx + 1, listing)
    /\ UNCHANGED <<mode, event_path, github_token, delete_old_comments, review,
                   artifact, remote0, listing, exit_code, agent_calls,
                   agent_result, payloadVars>>

\* the delete raises: control leaves the loop for the `except` of the try
DeleteCommentFails ==
    /\ pc = "delete"
    /\ IsOurs(listing[idx])
    /\ ops' = Append(ops, Op("delete", listing[idx].id, FALSE, <<>>))
    /\ OnCleanupError
    /\ UNCHANGED <<mode, event_path, github_token, delete_old_comments, review,
                   artifact, remote, remote0, listing, idx, agent_calls,
                   agent_result, payloadVars>>

NewId == Len(remote0) + 1

\* response = requests.post(url, headers=headers, json=data)
PostComment ==
    /\ pc = "post"
    /\ \/ /\ ops' = Append(ops, Op("post", NewId, TRUE, PostBody(review)))
          /\ remote' = Append(remote, [id |-> NewId, body |-> PostBody(review)])
          /\ Return
       \/ /\ ops' = Append(ops, Op("post", NewId, FALSE, PostBody(review)))
          /\ OnPostError
          /\ UNCHANGED remote
    /\ UNCHANGED <<mode, event_path, github_token, delete_old_comments, review,
                   artifact, remote0, listing, idx, agent_calls, agent_result,
                   payloadVars>>

Next ==
    \/ LoadSettings
    \/ CheckEventPath
    \/ RunAgent
    \/ WriteOutput
    \/ Dispatch
    \/ EnterPost
    \/ ListComments
    \/ SkipComment
    \/ DeleteComment
    \/ DeleteCommentFails
    \/ PostComment

Spec == Init /\ [][Next]_vars

\* ============================================ scripts/post_review.py main()
MainIdle ==
    /\ event_path = "none"
    /\ github_token = ""
    /\ delete_old_comments = TRUE
    /\ review = <<>>
    /\ artifact = [written |-> FALSE, text |-> <<>>]
    /\ remote = <<>>
    /\ remote0 = <<>>
    /\ listing = <<>>
    /\ idx = 1
    /\ ops = <<>>
    /\ agent_calls = 0
    /\ agent_result = "none"

InitPayload ==
    /\ mode = "payload"
    /\ pc = "read"
    /\ exit_code = -1
    /\ MainIdle
    /\ agent_file \in AgentFiles
    /\ agent_output \in IF agent_file = "json" THEN AgentOutputs
                        ELSE {[summary |-> <<>>, comments |-> <<>>]}
    /\ env_allow \in EnvValues
    /\ payload = NoPayload
    /\ payload_written = FALSE

\* file not found, empty file or invalid JSON: raise SystemExit(...)
RejectAgentFile ==
    /\ pc = "read"
    /\ agent_file # "json"
    /\ Fatal
    /\ UNCHANGED <<mode, mainVars, payloadVars>>

\* payload = build_review_payload(agent_output); payload_path.write_text(...)
WritePayload ==
    /\ pc = "read"
    /\ agent_file = "json"
    /\ payload' = build_review_payload(agent_output, env_allow)
    /\ payload_written' = TRUE
    /\ Return
    /\ UNCHANGED <<mode, mainVars, agent_file, agent_output, env_allow>>

NextPayload ==
    \/ RejectAgentFile
    \/ WritePayload

SpecPayload == InitPayload /\ [][NextPayload]_vars

\* ============================================= properties: post_review.py
Decision == Get(agent_output, "decision", "COMMENT")
InputComments == Get(agent_output, "comments", <<>>)
PayloadComments == Get(payload, "comments", <<>>)

Indices(seq, Test(_)) == {i \in 1..Len(seq) : Test(seq[i])}

\* the lines of a text
RECURSIVE SplitLines(_)
SplitLines(s) ==
    LET breaks == {i \in 1..Len(s) : s[i] = "\n"}
    IN IF breaks = {} THEN <<s>>
       ELSE LET i == CHOOSE k \in breaks : \A m \in breaks : k <= m
            IN <<SubSeq(s, 1, i - 1)>> \o SplitLines(SubSeq(s, i + 1, Len(s)))

\* the run of "- ..." lines that follows the "Additional notes:" line
RECURSIVE BulletRun(_)
BulletRun(lines) ==
    IF lines # <<>> /\ Head(lines) # <<>> /\ Head(Head(lines)) = "- "
    THEN <<Head(lines)>> \o BulletRun(Tail(lines))
    ELSE <<>>

NoteBullets(body) ==
    LET lines == SplitLines(body)
        heads == {i \in 1..Len(lines) : lines[i] = <<"Additional notes:">>}
    IN IF heads = {} THEN <<>>
       ELSE LET h == CHOOSE k \in heads : \A m \in heads : k <= m
            IN BulletRun(SubSeq(lines, h + 1, Len(lines)))

MapSeq(seq, F(_)) == [i \in 1..Len(seq) |-> F(seq[i])]

\* C1: event is the decision verbatim, except that APPROVE without the
\* allow-approvals flag becomes COMMENT and the body gains the downgrade
\* notice; with the flag APPROVE stays, and REQUEST_CHANGES (any other
\* decision) is never altered and never gains the notice.
C1_ApprovalGate ==
    payload_written =>
        IF Decision = "APPROVE" /\ ~allow_approvals(env_allow)
        THEN /\ payload.event = "COMMENT"
             /\ Contains(payload.body, DOWNGRADE_NOTICE)
        ELSE /\ payload.event = Decision
             /\ ~Contains(payload.body, DOWNGRADE_NOTICE)

C1_Witness ==
    /\ payload_written
    /\ "decision" \in DOMAIN agent_output
    /\ agent_output.decision = "APPROVE"
    /\ ~allow_approvals(env_allow)
    /\ payload.event = "COMMENT"
    /\ InputComments # <<>>

\* the filter of the loop: a non-empty path and a comment non-empty after trim
PassesFilter(c) == c.path # <<>> /\ Strip(c.comment) # <<>>
HasIntLine(c) == c.line.kind = "int"
AsInline(c) == [path |-> c.path, line |-> c.line.val, side |-> "RIGHT",
                body |-> Strip(c.comment)]
AsBullet(c) == <<"- ">> \o c.path \o <<": ">> \o Strip(c.comment)

\* C5: the comments that pass the filter and have an integer line are, one
\* for one and in their original order, the entries of payload.comments (side
\* RIGHT); those that pass the filter and have no integer line are, one for
\* one and in order, the bullets under "Additional notes:"; no comment is in
\* both.
C5_Partition ==
    payload_written =>
        /\ PayloadComments =
             MapSeq(SelectSeq(InputComments,
                              LAMBDA c : PassesFilter(c) /\ HasIntLine(c)), AsInline)
        /\ NoteBullets(payload.body) =
             MapSeq(SelectSeq(InputComments,
                              LAMBDA c : PassesFilter(c) /\ ~HasIntLine(c)), AsBullet)

C5_Witness ==
    /\ payload_written
    /\ \E i, j \in 1..Len(InputComments) :
         /\ i < j
         /\ PassesFilter(InputComments[i]) /\ InputComments[i].line.kind = "none"
         /\ PassesFilter(InputComments[j]) /\ HasIntLine(InputComments[j])
    /\ Len(PayloadComments) = 1
    /\ Len(NoteBullets(payload.body)) = 1

\* C6: a comment whose path is empty after trimming, or whose text is empty
\* after trimming, is in neither payload.comments nor the notes' bullets.
Unusable(c) == Strip(c.path) = <<>> \/ Strip(c.comment) = <<>>

C6_DropsUnusable ==
    payload_written =>
        \A i \in 1..Len(InputComments) :
            LET c == InputComments[i]
            IN Unusable(c) =>
                 /\ \A k \in 1..Len(PayloadComments) :
                      ~(PayloadComments[k].path = c.path
                        /\ PayloadComments[k].body = Strip(c.comment))
                 /\ \A k \in 1..Len(NoteBullets(payload.body)) :
                      NoteBullets(payload.body)[k] # AsBullet(c)

\* ===================================================== properties: main.py
HasMarker(c) == Contains(c.body, COMMENT_TAG)
MarkerComments(comments) == SelectSeq(comments, HasMarker)
OpsOf(name) == SelectSeq(ops, LAMBDA o : o.op = name)
FailedOps(name) == SelectSeq(ops, LAMBDA o : o.op = name /\ ~o.ok)

\* post_github_comment was called in this run
Called == mode = "call" \/ (mode = "main" /\ event_path # "none" /\ github_token # "")
\* ... and has returned
Returned == Called /\ pc = "done"

TheNewComment == [id |-> NewId, body |-> review \o <<"\n", "\n">> \o COMMENT_TAG]

\* C2: after one run with a credential, cleanup enabled and no failed
\* request, exactly one marker-bearing comment is on the PR: the new one,
\* whatever the number of marker-bearing comments before the run.
C2_Converges ==
    (/\ Returned
     /\ github_token # ""
     /\ delete_old_comments
     /\ \A k \in 1..Len(ops) : ops[k].ok)
    => MarkerComments(remote) = <<TheNewComment>>

\* C3: when one deletion fails, every other marker-bearing comment of the
\* listing is still sent a delete, so at most that one stale marker comment
\* of the listing stays on the PR.
C3_PerCommentCatch ==
    (/\ Returned
     /\ FailedOps("list") = <<>> /\ OpsOf("list") # <<>>
     /\ Len(FailedOps("delete")) = 1)
    => /\ \A i \in 1..Len(listing) :
            HasMarker(listing[i]) =>
                \E k \in 1..Len(ops) : ops[k].op = "delete" /\ ops[k].id = listing[i].id
       /\ Cardinality({i \in 1..Len(listing) :
                          /\ HasMarker(listing[i])
                          /\ \E k \in 1..Len(remote) : remote[k] = listing[i]}) <= 1

\* C4: with a credential, the new comment (review, blank line, marker) is
\* posted exactly once and as the last request of the run, also after a
\* failed listing or a failed deletion.
C4_PostsOnce ==
    /\ Len(OpsOf("post")) <= 1
    /\ (Returned /\ github_token # "") =>
          /\ Len(OpsOf("post")) = 1
          /\ ops[Len(ops)].op = "post"
          /\ ops[Len(ops)].body = TheNewComment.body

C4_Witness ==
    /\ Returned
    /\ github_token # ""
    /\ FailedOps("delete") # <<>>
    /\ Len(MarkerComments(remote0)) = 2
    /\ OpsOf("post") # <<>>

\* C7: without a credential no request is ever made, the comments on the PR
\* stay as they were, and the call returns normally (exit status 0 once the
\* artifact is written).
C7_NoCredential ==
    github_token = "" =>
        /\ ops = <<>>
        /\ remote = remote0
        /\ pc \notin {"list", "delete", "post"}
        /\ (pc \in {"done", "fatal"} /\ (mode = "call" \/ artifact.written))
              => (pc = "done" /\ exit_code = 0)

C7_Witness ==
    /\ github_token = ""
    /\ mode = "call"
    /\ pc = "done"
    /\ MarkerComments(remote0) # <<>>

\* C8: no failure of a list, delete or post request is fatal: once a request
\* has been made the run never ends in an error, and it ends with exit
\* status 0 as a run without failures does.
C8_LifecycleNeverFatal ==
    ops # <<>> =>
        /\ pc # "fatal"
        /\ pc = "done" => exit_code = 0

C8_Witness ==
    /\ pc = "done"
    /\ exit_code = 0
    /\ FailedOps("delete") # <<>>
    /\ FailedOps("post") # <<>>

\* C9: the agent is called at most once; when it raises or returns empty
\* content the run ends with an error, the artifact is not written and no
\* request is made; in a run of main() every request comes after the
\* artifact was written.
C9_AgentErrorsFatal ==
    /\ agent_calls <= 1
    /\ agent_result \in {"raise", "empty"} =>
          /\ pc = "fatal" /\ exit_code = 1
          /\ ~artifact.written
          /\ ops = <<>>
          /\ remote = remote0
    /\ (mode = "main" /\ (ops # <<>> \/ pc \in {"post_enter", "list", "delete", "post"}))
          => artifact.written

C9_Witness ==
    /\ agent_result = "empty"
    /\ pc = "fatal"
    /\ agent_calls = 1
    /\ event_path = "file"
    /\ github_token # ""
    /\ MarkerComments(remote0) # <<>>

\* C10: only marker-bearing comments are ever deleted: every comment without
\* the marker that was on the PR before the run is still there unchanged,
\* every delete request names a marker-bearing prior comment, and a posted
\* comment stays the last comment of the PR.
C10_OnlyMarkedDeleted ==
    /\ \A i \in 1..Len(remote0) :
          ~HasMarker(remote0[i]) => \E k \in 1..Len(remote) : remote[k] = remote0[i]
    /\ \A k \in 1..Len(ops) :
          ops[k].op = "delete" =>
             /\ ops[k].id # NewId
             /\ \E i \in 1..Len(remote0) :
                   remote0[i].id = ops[k].id /\ HasMarker(remote0[i])
    /\ (\E k \in 1..Len(ops) : ops[k].op = "post" /\ ops[k].ok) =>
          (remote # <<>> /\ remote[Len(remote)] = TheNewComment)

C10_Witness ==
    /\ Returned
    /\ \E i, j \in 1..Len(remote0) : HasMarker(remote0[i]) /\ ~HasMarker(remote0[j])
    /\ \E k \in 1..Len(ops) : ops[k].op = "delete" /\ ops[k].ok
    /\ \E k \in 1..Len(ops) : ops[k].op = "post" /\ ops[k].ok

====
